---------------------------- MODULE Spec2Model ----------------------------
(***************************************************************************)
(* State-machine model of src/src/sync.rs: the bookkeeping of mutexes,     *)
(* read-write locks and condition variables of the interpreter's thread    *)
(* manager (SynchronizationState and the EvalContextExt operations).       *)
(*                                                                         *)
(* Every operation of the trait is a pure operator on the synchronization  *)
(* state `this` that yields an outcome record                              *)
(*     [sync, ret, sched, panic]                                           *)
(* (the state it leaves, the value it returns, the scheduler requests it   *)
(* made, whether an assertion / unwrap / expect aborted it), and one       *)
(* action that applies the operator to the current state.                  *)
(*                                                                         *)
(* Option<T> is a sequence of length 0 (None) or 1 (Some(x)).              *)
(* InterpResult<T> is [ok |-> TRUE, val |-> x] or [ok |-> FALSE, ...].     *)
(***************************************************************************)
EXTENDS Integers, Sequences, FiniteSets

\* ------------------------------------------------------------------ bounds
NumThreads == 3       \* simulated threads
MaxMutexes == 1       \* mutexes created
MaxCondvars == 1      \* condition variables created
NumMutexIds == 2      \* MutexIds handed to condvar_wait
MaxLockCount == 2     \* mutex lock counts, summed over the mutexes
MaxReadCount == 2     \* reader counts, summed over the readers
MaxQueue == 2         \* queued threads, summed over the queues of one kind
MaxCreates == 3       \* primitives of one kind created when only creating

VARIABLES
    sync,       \* SynchronizationState: [mutexes, rwlocks, condvars]
    call,       \* the last operation called: [op, id, thread, mutex]
    retval,     \* what that call returned, filed under its Rust type (see ret)
    sched,      \* the block_thread / unblock_thread requests that call made
    aborted,    \* TRUE once an assertion, unwrap or expect has panicked
    protocol    \* history: what the calls so far and their results tell the caller
                \* about each thread's place in each rwlock (see Track)

vars == <<sync, call, retval, sched, aborted, protocol>>

\* The value the last call returned.
ret == retval[CHOOSE type \in DOMAIN retval : TRUE]

Threads == 1 .. NumThreads

\* ------------------------------------------------------- Option and results
None == <<>>
Some(x) == <<x>>
Ok(v) == [ok |-> TRUE, val |-> v]
Err == [ok |-> FALSE, val |-> <<>>]
Unit == <<>>

Outcome(s, r) == [sync |-> s, ret |-> r, sched |-> <<>>, panic |-> FALSE]
Panic(s) == [sync |-> s, ret |-> Unit, sched |-> <<>>, panic |-> TRUE]

\* ------------------------------------------------------------- identifiers
\* Seeded fault: the arena position is not shifted.
Id_new_unshifted(idx) == idx

\* Idx::new: the arena position shifted by one (0 is the "unassigned" sentinel).
Id_new(idx) == idx + 1
\* Idx::index: the inverse shift.
Id_index(id) == id - 1
\* from_u32: NonZeroU32::new(id).unwrap(); None stands for the panic on 0.
from_u32(id) == IF id = 0 THEN None ELSE Some(id)

\* IndexVec indexing and push; a TLA+ sequence starts at 1, an IndexVec at 0.
At(vec, id) == vec[Id_index(id) + 1]
Put(vec, id, x) == [vec EXCEPT ![Id_index(id) + 1] = x]
NextId(vec) == Id_new(Len(vec))

\* Seeded fault: pop_back instead of pop_front.
pop_back(q) == IF q = <<>> THEN [rest |-> q, item |-> None]
               ELSE [rest |-> SubSeq(q, 1, Len(q) - 1), item |-> Some(q[Len(q)])]

\* VecDeque::pop_front / push_back
pop_front(q) == IF q = <<>> THEN [rest |-> q, item |-> None]
                ELSE [rest |-> Tail(q), item |-> Some(Head(q))]
push_back(q, x) == Append(q, x)

\* ------------------------------------------------------------------ mutex
DefaultMutex == [owner |-> None, lock_count |-> 0, queue |-> <<>>]

SetMutex(this, id, m) == [this EXCEPT !.mutexes = Put(this.mutexes, id, m)]

mutex_create(this) ==
    Outcome([this EXCEPT !.mutexes = Append(this.mutexes, DefaultMutex)],
            NextId(this.mutexes))

mutex_get_owner(this, id) ==
    LET mutex == At(this.mutexes, id)
    IN  IF mutex.owner = None THEN Panic(this) ELSE Outcome(this, mutex.owner[1])

mutex_is_locked(this, id) == Outcome(this, At(this.mutexes, id).owner # None)

\* Seeded fault: the first lock sets the owner and leaves lock_count at 0.
mutex_lock_no_count(this, id, thread) ==
    LET mutex == At(this.mutexes, id)
    IN  IF mutex.owner # None
        THEN IF thread # mutex.owner[1] THEN Panic(this)
             ELSE Outcome(SetMutex(this, id,
                      [mutex EXCEPT !.lock_count = mutex.lock_count + 1]), Unit)
        ELSE Outcome(SetMutex(this, id, [mutex EXCEPT !.owner = Some(thread)]), Unit)

\* Seeded fault: a lock by the owner leaves lock_count as it is.
mutex_lock_not_recursive(this, id, thread) ==
    LET mutex == At(this.mutexes, id)
    IN  IF mutex.owner # None
        THEN IF thread # mutex.owner[1] THEN Panic(this) ELSE Outcome(this, Unit)
        ELSE Outcome(SetMutex(this, id,
                      [mutex EXCEPT !.owner = Some(thread), !.lock_count = 1]), Unit)

mutex_lock(this, id, thread) ==
    LET mutex == At(this.mutexes, id)
    IN  IF mutex.owner # None
        THEN IF thread # mutex.owner[1] THEN Panic(this)
             ELSE IF ~(mutex.lock_count > 0) THEN Panic(this)
             ELSE Outcome(SetMutex(this, id,
                      [mutex EXCEPT !.lock_count = mutex.lock_count + 1]), Unit)
        ELSE Outcome(SetMutex(this, id,
                      [mutex EXCEPT !.owner = Some(thread),
                                    !.lock_count = mutex.lock_count + 1]), Unit)

\* Seeded fault: push_front instead of push_back.
mutex_enqueue_front(this, id, thread) ==
    LET mutex == At(this.mutexes, id)
    IN  IF mutex.owner = None THEN Panic(this)
        ELSE Outcome(SetMutex(this, id,
                 [mutex EXCEPT !.queue = <<thread>> \o mutex.queue]), Unit)

\* Seeded fault: the "mutex is locked" assertion is missing.
mutex_enqueue_unchecked(this, id, thread) ==
    LET mutex == At(this.mutexes, id)
    IN  Outcome(SetMutex(this, id,
            [mutex EXCEPT !.queue = push_back(mutex.queue, thread)]), Unit)

mutex_enqueue(this, id, thread) ==
    LET mutex == At(this.mutexes, id)
    IN  IF ~mutex_is_locked(this, id).ret THEN Panic(this)
        ELSE Outcome(SetMutex(this, id,
                 [mutex EXCEPT !.queue = push_back(mutex.queue, thread)]), Unit)

\* Seeded fault: pop_back instead of pop_front.
mutex_dequeue_back(this, id) ==
    LET mutex == At(this.mutexes, id)
        n == Len(mutex.queue)
    IN  IF n = 0 THEN Outcome(this, None)
        ELSE Outcome(SetMutex(this, id,
                 [mutex EXCEPT !.queue = SubSeq(mutex.queue, 1, n - 1)]),
                 Some(mutex.queue[n]))

\* Seeded fault: front() instead of pop_front(): the thread stays queued.
mutex_dequeue_peek(this, id) ==
    LET mutex == At(this.mutexes, id)
    IN  Outcome(this, IF mutex.queue = <<>> THEN None ELSE Some(Head(mutex.queue)))

mutex_dequeue(this, id) ==
    LET mutex == At(this.mutexes, id)
        p == pop_front(mutex.queue)
    IN  Outcome(SetMutex(this, id, [mutex EXCEPT !.queue = p.rest]), p.item)

\* The scheduler (crate::thread) is outside this file.  A call to it is logged with
\* its outcome; it either succeeds or returns an interpreter error.
SchedCall(op, thread, ok) == [op |-> op, thread |-> thread, ok |-> ok]

unblock_thread(thread, ok) ==
    [request |-> SchedCall("unblock", thread, ok), result |-> IF ok THEN Ok(Unit) ELSE Err]

block_thread(thread, ok) ==
    [request |-> SchedCall("block", thread, ok), result |-> IF ok THEN Ok(Unit) ELSE Err]

\* The owner's branch of mutex_unlock: decrement, and at 0 release and hand over.
mutex_release(this, id, sched_ok) ==
    LET mutex == At(this.mutexes, id)
        old_lock_count == mutex.lock_count
    IN  IF old_lock_count = 0 THEN Panic(this)
        ELSE LET m1 == [mutex EXCEPT !.lock_count = old_lock_count - 1]
             IN  IF m1.lock_count = 0
                 THEN LET s2 == SetMutex(this, id, [m1 EXCEPT !.owner = None])
                          d == mutex_dequeue(s2, id)
                      IN  IF d.ret # None
                          THEN LET new_owner == d.ret[1]
                                   l == mutex_lock(d.sync, id, new_owner)
                                   u == unblock_thread(new_owner, sched_ok)
                               IN  IF l.panic THEN l
                                   ELSE [sync |-> l.sync,
                                         ret |-> IF u.result.ok
                                                 THEN Ok(Some(old_lock_count))
                                                 ELSE Err,
                                         sched |-> <<u.request>>,
                                         panic |-> FALSE]
                          ELSE Outcome(d.sync, Ok(Some(old_lock_count)))
                 ELSE Outcome(SetMutex(this, id, m1), Ok(Some(old_lock_count)))

\* Seeded fault: the ownership test is missing.
mutex_unlock_unchecked(this, id, expected_owner, sched_ok) ==
    IF At(this.mutexes, id).owner # None
    THEN mutex_release(this, id, sched_ok)
    ELSE Outcome(this, Ok(None))

\* Seeded fault: a foreign unlock reports the current lock count.
mutex_unlock_reports_count(this, id, expected_owner, sched_ok) ==
    LET mutex == At(this.mutexes, id)
    IN  IF mutex.owner # None
        THEN IF mutex.owner[1] # expected_owner
             THEN Outcome(this, Ok(Some(mutex.lock_count)))
             ELSE mutex_release(this, id, sched_ok)
        ELSE Outcome(this, Ok(None))

mutex_unlock(this, id, expected_owner, sched_ok) ==
    LET mutex == At(this.mutexes, id)
    IN  IF mutex.owner # None
        THEN IF mutex.owner[1] # expected_owner
             THEN Outcome(this, Ok(None))
             ELSE mutex_release(this, id, sched_ok)
        ELSE Outcome(this, Ok(None))

\* ----------------------------------------------------------------- rwlock
\* readers is the HashMap<ThreadId, usize>: a function whose domain is its keys.
DefaultRwLock ==
    [writer |-> None, readers |-> <<>>, writer_queue |-> <<>>, reader_queue |-> <<>>]

SetRwLock(this, id, l) == [this EXCEPT !.rwlocks = Put(this.rwlocks, id, l)]

\* HashMap::insert and HashMap::remove (Entry::remove)
Insert(map, k, v) == [x \in DOMAIN map \cup {k} |-> IF x = k THEN v ELSE map[x]]
Remove(map, k) == [x \in DOMAIN map \ {k} |-> map[x]]

rwlock_create(this) ==
    Outcome([this EXCEPT !.rwlocks = Append(this.rwlocks, DefaultRwLock)],
            NextId(this.rwlocks))

rwlock_is_locked(this, id) ==
    LET rwlock == At(this.rwlocks, id)
    IN  Outcome(this, rwlock.writer # None \/ ~(DOMAIN rwlock.readers = {}))

rwlock_is_write_locked(this, id) ==
    Outcome(this, At(this.rwlocks, id).writer # None)

\* Seeded fault: insert(reader, 1) instead of incrementing the entry.
rwlock_reader_lock_resets(this, id, reader) ==
    LET rwlock == At(this.rwlocks, id)
    IN  IF rwlock_is_write_locked(this, id).ret THEN Panic(this)
        ELSE Outcome(SetRwLock(this, id,
                 [rwlock EXCEPT !.readers = Insert(rwlock.readers, reader, 1)]), Unit)

rwlock_reader_lock(this, id, reader) ==
    LET rwlock == At(this.rwlocks, id)
        \* entry(reader).or_insert(0)
        count == IF reader \in DOMAIN rwlock.readers THEN rwlock.readers[reader] ELSE 0
    IN  IF rwlock_is_write_locked(this, id).ret THEN Panic(this)
        ELSE Outcome(SetRwLock(this, id,
                 [rwlock EXCEPT !.readers = Insert(rwlock.readers, reader, count + 1)]),
                 Unit)

\* Seeded fault: an entry whose count reaches 0 is kept.
rwlock_reader_unlock_keeps_entry(this, id, reader) ==
    LET rwlock == At(this.rwlocks, id)
    IN  IF reader \in DOMAIN rwlock.readers
        THEN Outcome(SetRwLock(this, id,
                 [rwlock EXCEPT !.readers =
                      Insert(rwlock.readers, reader, rwlock.readers[reader] - 1)]), TRUE)
        ELSE Outcome(this, FALSE)

rwlock_reader_unlock(this, id, reader) ==
    LET rwlock == At(this.rwlocks, id)
    IN  IF reader \in DOMAIN rwlock.readers
        THEN LET count == rwlock.readers[reader] - 1
             IN  IF count < 0 THEN Panic(this)
                 ELSE IF count = 0
                 THEN Outcome(SetRwLock(this, id,
                          [rwlock EXCEPT !.readers = Remove(rwlock.readers, reader)]), TRUE)
                 ELSE Outcome(SetRwLock(this, id,
                          [rwlock EXCEPT !.readers = Insert(rwlock.readers, reader, count)]),
                          TRUE)
        ELSE Outcome(this, FALSE)

\* Seeded fault: the assertion is made after the push_back.
rwlock_enqueue_and_block_reader_late(this, id, reader, sched_ok) ==
    LET rwlock == At(this.rwlocks, id)
        pushed == SetRwLock(this, id,
                      [rwlock EXCEPT !.reader_queue = push_back(rwlock.reader_queue, reader)])
        b == block_thread(reader, sched_ok)
    IN  IF ~rwlock_is_write_locked(this, id).ret THEN Panic(pushed)
        ELSE [sync |-> pushed, ret |-> b.result, sched |-> <<b.request>>, panic |-> FALSE]

rwlock_enqueue_and_block_reader(this, id, reader, sched_ok) ==
    LET rwlock == At(this.rwlocks, id)
        b == block_thread(reader, sched_ok)
    IN  IF ~rwlock_is_write_locked(this, id).ret THEN Panic(this)
        ELSE [sync |-> SetRwLock(this, id,
                  [rwlock EXCEPT !.reader_queue = push_back(rwlock.reader_queue, reader)]),
              ret |-> b.result,
              sched |-> <<b.request>>,
              panic |-> FALSE]

rwlock_dequeue_reader(this, id) ==
    LET rwlock == At(this.rwlocks, id)
        p == pop_front(rwlock.reader_queue)
    IN  Outcome(SetRwLock(this, id, [rwlock EXCEPT !.reader_queue = p.rest]), p.item)

\* Seeded fault: the "already locked" assertion is missing.
rwlock_writer_lock_unchecked(this, id, writer) ==
    Outcome(SetRwLock(this, id, [At(this.rwlocks, id) EXCEPT !.writer = Some(writer)]),
            Unit)

rwlock_writer_lock(this, id, writer) ==
    LET rwlock == At(this.rwlocks, id)
    IN  IF rwlock_is_locked(this, id).ret THEN Panic(this)
        ELSE Outcome(SetRwLock(this, id, [rwlock EXCEPT !.writer = Some(writer)]), Unit)

\* Seeded fault: the writer is read, not taken.
rwlock_writer_unlock_keeps_writer(this, id) ==
    Outcome(this, At(this.rwlocks, id).writer)

\* Seeded fault: the unlock hands the lock to the first queued writer.
rwlock_writer_unlock_hands_over(this, id) ==
    LET rwlock == At(this.rwlocks, id)
        p == pop_front(rwlock.writer_queue)
    IN  Outcome(SetRwLock(this, id,
                    [rwlock EXCEPT !.writer = p.item, !.writer_queue = p.rest]),
                rwlock.writer)

\* Option::take
rwlock_writer_unlock(this, id) ==
    LET rwlock == At(this.rwlocks, id)
    IN  Outcome(SetRwLock(this, id, [rwlock EXCEPT !.writer = None]), rwlock.writer)

\* Seeded fault: a failed block_thread undoes the push_back.
rwlock_enqueue_and_block_writer_rolls_back(this, id, writer, sched_ok) ==
    LET rwlock == At(this.rwlocks, id)
        b == block_thread(writer, sched_ok)
    IN  IF ~rwlock_is_locked(this, id).ret THEN Panic(this)
        ELSE [sync |-> IF b.result.ok
                       THEN SetRwLock(this, id,
                                [rwlock EXCEPT !.writer_queue =
                                     push_back(rwlock.writer_queue, writer)])
                       ELSE this,
              ret |-> b.result,
              sched |-> <<b.request>>,
              panic |-> FALSE]

rwlock_enqueue_and_block_writer(this, id, writer, sched_ok) ==
    LET rwlock == At(this.rwlocks, id)
        b == block_thread(writer, sched_ok)
    IN  IF ~rwlock_is_locked(this, id).ret THEN Panic(this)
        ELSE [sync |-> SetRwLock(this, id,
                  [rwlock EXCEPT !.writer_queue = push_back(rwlock.writer_queue, writer)]),
              ret |-> b.result,
              sched |-> <<b.request>>,
              panic |-> FALSE]

\* Seeded fault: pop_back instead of pop_front.
rwlock_dequeue_writer_back(this, id) ==
    LET rwlock == At(this.rwlocks, id)
        n == Len(rwlock.writer_queue)
    IN  IF n = 0 THEN Outcome(this, None)
        ELSE Outcome(SetRwLock(this, id,
                 [rwlock EXCEPT !.writer_queue = SubSeq(rwlock.writer_queue, 1, n - 1)]),
                 Some(rwlock.writer_queue[n]))

rwlock_dequeue_writer(this, id) ==
    LET rwlock == At(this.rwlocks, id)
        p == pop_front(rwlock.writer_queue)
    IN  Outcome(SetRwLock(this, id, [rwlock EXCEPT !.writer_queue = p.rest]), p.item)

\* ---------------------------------------------------------------- condvar
DefaultCondvar == [waiters |-> <<>>]

CondvarWaiter(thread, mutex) == [thread |-> thread, mutex |-> mutex]

SetCondvar(this, id, c) == [this EXCEPT !.condvars = Put(this.condvars, id, c)]

condvar_create(this) ==
    Outcome([this EXCEPT !.condvars = Append(this.condvars, DefaultCondvar)],
            NextId(this.condvars))

condvar_is_awaited(this, id) ==
    Outcome(this, ~(At(this.condvars, id).waiters = <<>>))

\* Seeded fault: the "thread is already waiting" assertion is missing.
condvar_wait_unchecked(this, id, thread, mutex) ==
    LET waiters == At(this.condvars, id).waiters
    IN  Outcome(SetCondvar(this, id,
            [waiters |-> push_back(waiters, CondvarWaiter(thread, mutex))]), Unit)

condvar_wait(this, id, thread, mutex) ==
    LET waiters == At(this.condvars, id).waiters
    IN  IF ~(\A i \in 1 .. Len(waiters) : waiters[i].thread # thread) THEN Panic(this)
        ELSE Outcome(SetCondvar(this, id,
                 [waiters |-> push_back(waiters, CondvarWaiter(thread, mutex))]), Unit)

\* Seeded fault: pop_back instead of pop_front.
condvar_signal_back(this, id) ==
    LET waiters == At(this.condvars, id).waiters
        n == Len(waiters)
    IN  IF n = 0 THEN Outcome(this, None)
        ELSE Outcome(SetCondvar(this, id, [waiters |-> SubSeq(waiters, 1, n - 1)]),
                     Some(<<waiters[n].thread, waiters[n].mutex>>))

condvar_signal(this, id) ==
    LET p == pop_front(At(this.condvars, id).waiters)
    IN  Outcome(SetCondvar(this, id, [waiters |-> p.rest]),
                IF p.item = None THEN None
                ELSE Some(<<p.item[1].thread, p.item[1].mutex>>))

\* VecDeque::retain
condvar_remove_waiter(this, id, thread) ==
    LET waiters == At(this.condvars, id).waiters
        Keep(waiter) == waiter.thread # thread
    IN  Outcome(SetCondvar(this, id, [waiters |-> SelectSeq(waiters, Keep)]), Unit)

\* ---------------------------------------------------------------- actions
MutexIds == { Id_new(i) : i \in 0 .. Len(sync.mutexes) - 1 }

Queued(s) == LET RECURSIVE Sum(_)
                 Sum(i) == IF i = 0 THEN 0 ELSE Len(s.mutexes[i].queue) + Sum(i - 1)
             IN  Sum(Len(s.mutexes))

Held(s) == LET RECURSIVE Sum(_)
               Sum(i) == IF i = 0 THEN 0 ELSE s.mutexes[i].lock_count + Sum(i - 1)
           IN  Sum(Len(s.mutexes))

Call(op, id, thread, mutex) == [op |-> op, id |-> id, thread |-> thread, mutex |-> mutex]

\* The caller's record of the rwlock calls made so far.  place[id][t] is where the
\* calls and their results put thread t in rwlock id: "writer", "reader" (nest[id][t]
\* read locks deep), "writer_queue", "reader_queue" or "none".  kept turns FALSE,
\* for good, at the first lock or enqueue call for a thread whose recorded place is
\* not "none" (a reader may lock again).
ProtocolBroken == [kept |-> FALSE, place |-> <<>>, nest |-> <<>>]

Track(p, c, out) ==
    LET i == Id_index(c.id) + 1
        t == c.thread
        Move(thread, to, n) == [p EXCEPT !.place[i][thread] = to, !.nest[i][thread] = n]
    IN  IF ~p.kept \/ out.panic THEN p
        ELSE CASE c.op = "rwlock_create" ->
                      [p EXCEPT !.place = Append(@, [x \in Threads |-> "none"]),
                                !.nest = Append(@, [x \in Threads |-> 0])]
               [] c.op = "rwlock_reader_lock" ->
                      IF p.place[i][t] \in {"none", "reader"}
                      THEN Move(t, "reader", p.nest[i][t] + 1)
                      ELSE ProtocolBroken
               [] c.op = "rwlock_reader_unlock" ->
                      IF out.ret /\ p.place[i][t] = "reader"
                      THEN IF p.nest[i][t] = 1 THEN Move(t, "none", 0)
                           ELSE Move(t, "reader", p.nest[i][t] - 1)
                      ELSE p
               [] c.op = "rwlock_writer_lock" ->
                      IF p.place[i][t] = "none" THEN Move(t, "writer", 0) ELSE ProtocolBroken
               [] c.op = "rwlock_enqueue_and_block_reader" ->
                      IF p.place[i][t] = "none" THEN Move(t, "reader_queue", 0)
                      ELSE ProtocolBroken
               [] c.op = "rwlock_enqueue_and_block_writer" ->
                      IF p.place[i][t] = "none" THEN Move(t, "writer_queue", 0)
                      ELSE ProtocolBroken
               [] c.op \in {"rwlock_writer_unlock", "rwlock_dequeue_reader",
                            "rwlock_dequeue_writer"} ->
                      IF out.ret # None THEN Move(out.ret[1], "none", 0) ELSE p
               [] OTHER -> p

\* The return type of each operation; "!" is a call that panicked.
ReturnType(op) ==
    CASE op \in {"mutex_create", "from_u32"} -> "MutexId"
      [] op = "rwlock_create" -> "RwLockId"
      [] op = "condvar_create" -> "CondvarId"
      [] op = "mutex_get_owner" -> "ThreadId"
      [] op \in {"mutex_is_locked", "rwlock_is_locked", "rwlock_is_write_locked",
                 "rwlock_reader_unlock", "condvar_is_awaited"} -> "bool"
      [] op = "mutex_unlock" -> "InterpResult<Option<usize>>"
      [] op \in {"rwlock_enqueue_and_block_reader",
                 "rwlock_enqueue_and_block_writer"} -> "InterpResult"
      [] op \in {"mutex_dequeue", "rwlock_dequeue_reader", "rwlock_dequeue_writer",
                 "rwlock_writer_unlock"} -> "Option<ThreadId>"
      [] op = "condvar_signal" -> "Option<(ThreadId, MutexId)>"
      [] OTHER -> "()"

Returned(type, value) == [x \in {type} |-> value]

Apply(c, out) ==
    /\ ~aborted
    /\ sync' = out.sync
    /\ call' = c
    /\ retval' = Returned(IF out.panic THEN "!" ELSE ReturnType(c.op), out.ret)
    /\ sched' = out.sched
    /\ aborted' = out.panic
    /\ protocol' = Track(protocol, c, out)

MutexCreate ==
    /\ Len(sync.mutexes) < MaxMutexes
    /\ Apply(Call("mutex_create", 0, 0, 0), mutex_create(sync))

MutexGetOwner ==
    \E id \in MutexIds :
        Apply(Call("mutex_get_owner", id, 0, 0), mutex_get_owner(sync, id))

MutexIsLocked ==
    \E id \in MutexIds :
        Apply(Call("mutex_is_locked", id, 0, 0), mutex_is_locked(sync, id))

MutexLock ==
    \E id \in MutexIds, thread \in Threads :
        /\ Held(sync) < MaxLockCount
        /\ Apply(Call("mutex_lock", id, thread, 0), mutex_lock(sync, id, thread))

MutexUnlock ==
    \E id \in MutexIds, thread \in Threads, sched_ok \in BOOLEAN :
        Apply(Call("mutex_unlock", id, thread, 0),
              mutex_unlock(sync, id, thread, sched_ok))

MutexEnqueue ==
    \E id \in MutexIds, thread \in Threads :
        /\ Queued(sync) < MaxQueue
        /\ Apply(Call("mutex_enqueue", id, thread, 0), mutex_enqueue(sync, id, thread))

MutexDequeue ==
    \E id \in MutexIds :
        Apply(Call("mutex_dequeue", id, 0, 0), mutex_dequeue(sync, id))

RwLockIds == { Id_new(i) : i \in 0 .. Len(sync.rwlocks) - 1 }

CondvarIds == { Id_new(i) : i \in 0 .. Len(sync.condvars) - 1 }

\* The MutexIds a caller passes to condvar_wait (from_u32 of a stored integer).
WaitMutexIds == { from_u32(k)[1] : k \in 1 .. NumMutexIds }

RwQueued(s) ==
    LET RECURSIVE Sum(_)
        Sum(i) == IF i = 0 THEN 0
                  ELSE Len(s.rwlocks[i].writer_queue) + Len(s.rwlocks[i].reader_queue)
                       + Sum(i - 1)
    IN  Sum(Len(s.rwlocks))

RECURSIVE SumCounts(_)
SumCounts(map) ==
    IF DOMAIN map = {} THEN 0
    ELSE LET k == CHOOSE x \in DOMAIN map : TRUE
         IN  map[k] + SumCounts(Remove(map, k))

ReadHeld(s) ==
    LET RECURSIVE Sum(_)
        Sum(i) == IF i = 0 THEN 0 ELSE SumCounts(s.rwlocks[i].readers) + Sum(i - 1)
    IN  Sum(Len(s.rwlocks))

Waiting(s) ==
    LET RECURSIVE Sum(_)
        Sum(i) == IF i = 0 THEN 0 ELSE Len(s.condvars[i].waiters) + Sum(i - 1)
    IN  Sum(Len(s.condvars))

\* The rwlock operations are followed on one read-write lock: each of them reads
\* and writes only the arena entry of its id (At, SetRwLock).
RwLockCreate ==
    /\ sync.rwlocks = <<>>
    /\ Apply(Call("rwlock_create", 0, 0, 0), rwlock_create(sync))

RwLockIsLocked ==
    \E id \in RwLockIds :
        Apply(Call("rwlock_is_locked", id, 0, 0), rwlock_is_locked(sync, id))

RwLockIsWriteLocked ==
    \E id \in RwLockIds :
        Apply(Call("rwlock_is_write_locked", id, 0, 0), rwlock_is_write_locked(sync, id))

RwLockReaderLock ==
    \E id \in RwLockIds, reader \in Threads :
        /\ ReadHeld(sync) < MaxReadCount
        /\ Apply(Call("rwlock_reader_lock", id, reader, 0),
                 rwlock_reader_lock(sync, id, reader))

RwLockReaderUnlock ==
    \E id \in RwLockIds, reader \in Threads :
        Apply(Call("rwlock_reader_unlock", id, reader, 0),
              rwlock_reader_unlock(sync, id, reader))

RwLockEnqueueAndBlockReader ==
    \E id \in RwLockIds, reader \in Threads, sched_ok \in BOOLEAN :
        /\ RwQueued(sync) < MaxQueue
        /\ Apply(Call("rwlock_enqueue_and_block_reader", id, reader, 0),
                 rwlock_enqueue_and_block_reader(sync, id, reader, sched_ok))

RwLockDequeueReader ==
    \E id \in RwLockIds :
        Apply(Call("rwlock_dequeue_reader", id, 0, 0), rwlock_dequeue_reader(sync, id))

RwLockWriterLock ==
    \E id \in RwLockIds, writer \in Threads :
        Apply(Call("rwlock_writer_lock", id, writer, 0),
              rwlock_writer_lock(sync, id, writer))

RwLockWriterUnlock ==
    \E id \in RwLockIds :
        Apply(Call("rwlock_writer_unlock", id, 0, 0), rwlock_writer_unlock(sync, id))

RwLockEnqueueAndBlockWriter ==
    \E id \in RwLockIds, writer \in Threads, sched_ok \in BOOLEAN :
        /\ RwQueued(sync) < MaxQueue
        /\ Apply(Call("rwlock_enqueue_and_block_writer", id, writer, 0),
                 rwlock_enqueue_and_block_writer(sync, id, writer, sched_ok))

RwLockDequeueWriter ==
    \E id \in RwLockIds :
        Apply(Call("rwlock_dequeue_writer", id, 0, 0), rwlock_dequeue_writer(sync, id))

CondvarCreate ==
    /\ Len(sync.condvars) < MaxCondvars
    /\ Apply(Call("condvar_create", 0, 0, 0), condvar_create(sync))

CondvarIsAwaited ==
    \E id \in CondvarIds :
        Apply(Call("condvar_is_awaited", id, 0, 0), condvar_is_awaited(sync, id))

CondvarWait ==
    \E id \in CondvarIds, thread \in Threads, mutex \in WaitMutexIds :
        /\ Waiting(sync) < MaxQueue
        /\ Apply(Call("condvar_wait", id, thread, mutex),
                 condvar_wait(sync, id, thread, mutex))

CondvarSignal ==
    \E id \in CondvarIds :
        Apply(Call("condvar_signal", id, 0, 0), condvar_signal(sync, id))

CondvarRemoveWaiter ==
    \E id \in CondvarIds, thread \in Threads :
        Apply(Call("condvar_remove_waiter", id, thread, 0),
              condvar_remove_waiter(sync, id, thread))

Init ==
    /\ sync = [mutexes |-> <<>>, rwlocks |-> <<>>, condvars |-> <<>>]
    /\ call = Call("new", 0, 0, 0)
    /\ retval = Returned("()", Unit)
    /\ sched = <<>>
    /\ aborted = FALSE
    /\ protocol = [kept |-> TRUE, place |-> <<>>, nest |-> <<>>]

NextMutex ==
    \/ MutexCreate
    \/ MutexGetOwner
    \/ MutexIsLocked
    \/ MutexLock
    \/ MutexUnlock
    \/ MutexEnqueue
    \/ MutexDequeue

NextRwLock ==
    \/ RwLockCreate
    \/ RwLockIsLocked
    \/ RwLockIsWriteLocked
    \/ RwLockReaderLock
    \/ RwLockReaderUnlock
    \/ RwLockEnqueueAndBlockReader
    \/ RwLockDequeueReader
    \/ RwLockWriterLock
    \/ RwLockWriterUnlock
    \/ RwLockEnqueueAndBlockWriter
    \/ RwLockDequeueWriter

NextCondvar ==
    \/ CondvarCreate
    \/ CondvarIsAwaited
    \/ CondvarWait
    \/ CondvarSignal
    \/ CondvarRemoveWaiter

Next == NextMutex \/ NextRwLock \/ NextCondvar

\* The whole state machine, and its restriction to the operations of one kind of
\* primitive (an operation touches only the arena of its kind).
Spec == Init /\ [][Next]_vars
SpecMutex == Init /\ [][NextMutex]_vars
SpecRwLock == Init /\ [][NextRwLock]_vars
SpecCondvar == Init /\ [][NextCondvar]_vars

\* The operations of all three kinds, each behaviour staying with the kind of the
\* primitive it created first.
NextOneKind ==
    \/ sync.rwlocks = <<>> /\ sync.condvars = <<>> /\ NextMutex
    \/ sync.mutexes = <<>> /\ sync.condvars = <<>> /\ NextRwLock
    \/ sync.mutexes = <<>> /\ sync.rwlocks = <<>> /\ NextCondvar

SpecOneKind == Init /\ [][NextOneKind]_vars

\* mutex_unlock(id, owner) called by the owner of mutex id at lock count c, with a
\* scheduler that unblocks the successor.
OwnerUnlockAt(id, c) ==
    /\ id \in MutexIds
    /\ At(sync.mutexes, id).owner # None
    /\ At(sync.mutexes, id).lock_count = c
    /\ Apply(Call("mutex_unlock", id, At(sync.mutexes, id).owner[1], 0),
             mutex_unlock(sync, id, At(sync.mutexes, id).owner[1], TRUE))

OwnerUnlock == \E id \in 1 .. MaxMutexes, c \in 1 .. MaxLockCount : OwnerUnlockAt(id, c)

\* Threads lock, queue up and are served by the owner's unlock alone: mutex_dequeue is
\* called only from inside mutex_unlock.
NextHandoff ==
    \/ MutexCreate
    \/ MutexLock
    \/ MutexEnqueue
    \/ OwnerUnlock

\* An owner does not hold a mutex forever: at whatever lock count it keeps coming
\* back to, it eventually unlocks once more.
OwnerUnlocks ==
    \A id \in 1 .. MaxMutexes, c \in 1 .. MaxLockCount : SF_vars(OwnerUnlockAt(id, c))

SpecHandoff == Init /\ [][NextHandoff]_vars /\ OwnerUnlocks

\* The create operations of the three kinds in any interleaving, and the
\* construction of an id from a stored integer.
CreateMutex ==
    /\ Len(sync.mutexes) < MaxCreates
    /\ Apply(Call("mutex_create", 0, 0, 0), mutex_create(sync))

CreateRwLock ==
    /\ Len(sync.rwlocks) < MaxCreates
    /\ Apply(Call("rwlock_create", 0, 0, 0), rwlock_create(sync))

CreateCondvar ==
    /\ Len(sync.condvars) < MaxCreates
    /\ Apply(Call("condvar_create", 0, 0, 0), condvar_create(sync))

FromU32 ==
    \E k \in 0 .. MaxCreates :
        Apply(Call("from_u32", k, 0, 0),
              IF from_u32(k) = None THEN Panic(sync) ELSE Outcome(sync, from_u32(k)[1]))

NextCreate ==
    \/ CreateMutex
    \/ CreateRwLock
    \/ CreateCondvar
    \/ FromU32

SpecCreate == Init /\ [][NextCreate]_vars


\* ================================================================== claims
Mx(s, id) == At(s.mutexes, id)
InSeq(q, x) == \E i \in 1 .. Len(q) : q[i] = x
NoDup(q) == \A i, j \in 1 .. Len(q) : i # j => q[i] # q[j]

\* A completed (not panicking) mutex_unlock(id, _) step.
UnlockStep(id) ==
    /\ call'.op = "mutex_unlock"
    /\ call'.id = id
    /\ ~aborted
    /\ ~aborted'

\* C1: for every mutex, as long as no assertion has tripped, owner is set if and
\* only if lock_count > 0.
C1_OwnerIffLockCount ==
    ~aborted =>
        \A id \in MutexIds : (Mx(sync, id).owner # None) <=> (Mx(sync, id).lock_count > 0)

\* A lock was released down to 0: the last unlock returned count 1 and left the
\* mutex without owner.
C1_Witness ==
    /\ ~aborted
    /\ call.op = "mutex_unlock"
    /\ ret = Ok(Some(1))
    /\ sched = <<>>
    /\ Mx(sync, call.id).owner = None
    /\ Mx(sync, call.id).lock_count = 0

\* The effect of the unlock that brings lock_count to 0, with `returned` the
\* statement about the value returned by a handoff.
FinalUnlockEffect(id, returned) ==
    LET pre == Mx(sync, id)
        post == Mx(sync', id)
    IN  (UnlockStep(id) /\ pre.owner = Some(call'.thread) /\ pre.lock_count = 1) =>
            /\ \A other \in MutexIds \ {id} : Mx(sync', other) = Mx(sync, other)
            /\ IF pre.queue # <<>>
               THEN /\ post.owner = Some(Head(pre.queue))
                    /\ post.lock_count = 1
                    /\ post.queue = Tail(pre.queue)
                    /\ Len(sched') = 1
                    /\ sched'[1].op = "unblock"
                    /\ sched'[1].thread = Head(pre.queue)
                    /\ returned
               ELSE /\ post = DefaultMutex
                    /\ sched' = <<>>
                    /\ ret' = Ok(Some(1))

\* C2 as stated: the unlock that brings lock_count to 0 with a non-empty queue makes
\* the front thread the owner with lock_count 1, requests unblock_thread for it
\* alone, keeps the rest of the queue, and returns the previous count 1; with an
\* empty queue the mutex becomes unlocked and nothing is unblocked.
C2_HandoffReturnsCount ==
    [][\A id \in MutexIds : FinalUnlockEffect(id, ret' = Ok(Some(1)))]_vars

\* C2 amended: as above, but the call returns the previous count 1 only if
\* unblock_thread succeeded, and the scheduler's error otherwise.
C2_Handoff ==
    [][\A id \in MutexIds :
          FinalUnlockEffect(id, ret' = IF sched'[1].ok THEN Ok(Some(1)) ELSE Err)]_vars

\* A handoff happened: the unlock returned 1, one thread was unblocked and owns
\* the mutex, another is still queued.
C2_Witness ==
    /\ ~aborted
    /\ call.op = "mutex_unlock"
    /\ ret = Ok(Some(1))
    /\ Len(sched) = 1
    /\ Mx(sync, call.id).owner = Some(sched[1].thread)
    /\ Mx(sync, call.id).lock_count = 1
    /\ Mx(sync, call.id).queue # <<>>

\* C3: strict FIFO, no overtaking: a step that gives a mutex with waiting threads a
\* new owner gives it to the front of the queue and removes that thread; and the
\* queue changes only by an append at the back or the removal of its front.
C3_FifoNoOvertaking ==
    [][\A id \in MutexIds :
          LET pre == Mx(sync, id)
              post == Mx(sync', id)
          IN  ~aborted' =>
                /\ (post.owner # None /\ post.owner # pre.owner /\ pre.queue # <<>>) =>
                       /\ post.owner = Some(Head(pre.queue))
                       /\ post.queue = Tail(pre.queue)
                /\ \/ post.queue = pre.queue
                   \/ pre.queue # <<>> /\ post.queue = Tail(pre.queue)
                   \/ \E t \in Threads : post.queue = Append(pre.queue, t)]_vars

\* Thread 1 unlocked with 2 and then 3 enqueued: 2 owns the mutex, 3 still waits.
C3_Witness ==
    /\ ~aborted
    /\ call = Call("mutex_unlock", Id_new(0), 1, 0)
    /\ Mx(sync, Id_new(0)).owner = Some(2)
    /\ Mx(sync, Id_new(0)).queue = <<3>>

\* C4: mutex_unlock on an unlocked mutex, or by a thread that is not the owner,
\* changes nothing and requests no unblock.
C4_FailedUnlockNoEffect ==
    [][\A id \in MutexIds :
          (/\ call'.op = "mutex_unlock"
           /\ call'.id = id
           /\ ~aborted
           /\ Mx(sync, id).owner # Some(call'.thread)) =>
              /\ sync' = sync
              /\ sched' = <<>>
              /\ ~aborted']_vars

\* A thread that is not the owner tried to unlock a mutex with a waiting thread.
C4_Witness ==
    /\ ~aborted
    /\ call.op = "mutex_unlock"
    /\ Mx(sync, call.id).owner # None
    /\ Mx(sync, call.id).owner # Some(call.thread)
    /\ Mx(sync, call.id).queue # <<>>
    /\ ret = Ok(None)

\* What mutex_unlock returns on a mutex that is not locked.
NotLockedReturn ==
    mutex_unlock([mutexes |-> <<DefaultMutex>>, rwlocks |-> <<>>, condvars |-> <<>>],
                 Id_new(0), 1, TRUE).ret

\* C5 as stated: the "not owner" outcome can be told from the "not locked" outcome
\* by the return value alone.
C5_NotOwnerDistinguishable ==
    [][\A id \in MutexIds :
          (/\ UnlockStep(id)
           /\ Mx(sync, id).owner # None
           /\ Mx(sync, id).owner # Some(call'.thread)) => ret' # NotLockedReturn]_vars

\* C5 amended: mutex_unlock returns None when the mutex has no owner and also when
\* it is locked by another thread; when expected_owner is the owner it returns the
\* previous lock count, or the scheduler's error if the handoff's unblock_thread
\* failed.
C5_UnlockReturn ==
    [][\A id \in MutexIds :
          UnlockStep(id) =>
              LET pre == Mx(sync, id)
              IN  IF pre.owner # Some(call'.thread)
                  THEN ret' = Ok(None)
                  ELSE ret' = IF sched' # <<>> /\ ~sched'[1].ok
                              THEN Err
                              ELSE Ok(Some(pre.lock_count))]_vars

\* An unlock of an unlocked mutex returned None.
C5_Witness ==
    /\ ~aborted
    /\ call.op = "mutex_unlock"
    /\ Mx(sync, call.id).owner = None
    /\ ret = Ok(None)

\* No thread both owns the mutex and waits for it, none waits twice.
QueueDisjoint(m) ==
    /\ NoDup(m.queue)
    /\ m.owner # None => ~InSeq(m.queue, m.owner[1])

\* C7 as stated: after every operation of a sequence that trips no assertion, no
\* thread is owner and queued, and none is queued twice.
C7_OwnerNotQueuedNoDuplicates ==
    ~aborted => \A id \in MutexIds : QueueDisjoint(Mx(sync, id))

\* mutex_enqueue(id, thread) for a thread that owns the mutex or is queued on it.
RepeatedEnqueue(id) ==
    /\ call'.op = "mutex_enqueue"
    /\ call'.id = id
    /\ \/ Mx(sync, id).owner = Some(call'.thread)
       \/ InSeq(Mx(sync, id).queue, call'.thread)

\* C7 amended: every operation other than a mutex_enqueue of a thread that already
\* owns the mutex or is already in its queue keeps the property.
C7_QueueDisjointKept ==
    [][\A id \in MutexIds :
          (QueueDisjoint(Mx(sync, id)) /\ ~RepeatedEnqueue(id) /\ ~aborted') =>
              QueueDisjoint(Mx(sync', id))]_vars

\* A second thread was enqueued behind a first, both distinct from the owner.
C7_Witness ==
    /\ ~aborted
    /\ call.op = "mutex_enqueue"
    /\ Len(Mx(sync, call.id).queue) = 2
    /\ QueueDisjoint(Mx(sync, call.id))

Rw(s, id) == At(s.rwlocks, id)
Occurrences(q, x) == Cardinality({i \in 1 .. Len(q) : q[i] = x})

\* C6: for every rwlock, as long as no assertion has tripped: a writer implies no
\* readers, readers imply no writer, and every stored reader count is >= 1.
C6_WriterExcludesReaders ==
    ~aborted =>
        \A id \in RwLockIds :
            LET l == Rw(sync, id)
            IN  /\ l.writer # None => DOMAIN l.readers = {}
                /\ DOMAIN l.readers # {} => l.writer = None
                /\ \A t \in DOMAIN l.readers : l.readers[t] >= 1

\* A reader released its last read lock and its entry is gone, while another
\* reader still holds the lock.
C6_Witness ==
    /\ ~aborted
    /\ call.op = "rwlock_reader_unlock"
    /\ ret = TRUE
    /\ call.thread \notin DOMAIN Rw(sync, call.id).readers
    /\ DOMAIN Rw(sync, call.id).readers # {}

\* The number of places of rwlock l that hold thread t.
Places(l, t) ==
    (IF l.writer = Some(t) THEN 1 ELSE 0)
    + (IF t \in DOMAIN l.readers THEN 1 ELSE 0)
    + Occurrences(l.writer_queue, t)
    + Occurrences(l.reader_queue, t)

OnePlace(l) == \A t \in Threads : Places(l, t) <= 1

\* C8 as stated: after every operation of a sequence that trips no assertion, each
\* thread is in at most one of writer, readers, writer_queue, reader_queue, and at
\* most once in a queue.
C8_ThreadInOnePlace ==
    ~aborted => \A id \in RwLockIds : OnePlace(Rw(sync, id))

\* C8 amended: the property holds after every operation as long as no lock or
\* enqueue operation has been called for a thread that, by the calls made so far, is
\* still the writer, a reader or queued on that rwlock (a reader may lock again).
C8_OnePlaceUnderProtocol ==
    (~aborted /\ protocol.kept) => \A id \in RwLockIds : OnePlace(Rw(sync, id))

\* A write-locked rwlock with one thread in each queue, all three distinct.
C8_Witness ==
    /\ ~aborted
    /\ call.op = "rwlock_enqueue_and_block_reader"
    /\ Rw(sync, call.id).writer # None
    /\ Rw(sync, call.id).writer_queue # <<>>
    /\ Rw(sync, call.id).reader_queue # <<>>
    /\ OnePlace(Rw(sync, call.id))
    /\ protocol.kept

Waiters(s, id) == At(s.condvars, id).waiters

\* C9: for every condvar, as long as no assertion has tripped, each thread is at most
\* once in waiters; and a condvar_wait for a thread already in waiters trips the
\* assertion and adds no entry.
C9_WaitersDistinct ==
    /\ [](~aborted =>
            \A id \in CondvarIds :
                \A i, j \in 1 .. Len(Waiters(sync, id)) :
                    i # j => Waiters(sync, id)[i].thread # Waiters(sync, id)[j].thread)
    /\ [][\A id \in CondvarIds :
             (/\ call'.op = "condvar_wait"
              /\ call'.id = id
              /\ \E i \in 1 .. Len(Waiters(sync, id)) :
                     Waiters(sync, id)[i].thread = call'.thread) =>
                 /\ aborted'
                 /\ sync' = sync]_vars

\* A second condvar_wait of a waiting thread was rejected: the thread is in waiters
\* once.
C9_Witness ==
    /\ aborted
    /\ call.op = "condvar_wait"
    /\ Cardinality({i \in 1 .. Len(Waiters(sync, call.id)) :
                       Waiters(sync, call.id)[i].thread = call.thread}) = 1

\* C10: condvar_wait registers at the back, condvar_remove_waiter takes the thread
\* out and keeps the order of the others, condvar_signal returns the oldest waiter
\* with the MutexId of its condvar_wait and removes it, and returns none exactly
\* when waiters is empty; condvar_is_awaited is true exactly when it is not.
C10_SignalFifoPairing ==
    [][\A id \in CondvarIds :
          LET pre == Waiters(sync, id)
              post == Waiters(sync', id)
              Others(w) == w.thread # call'.thread
          IN  (call'.id = id /\ ~aborted /\ ~aborted') =>
                /\ call'.op = "condvar_wait" =>
                       post = Append(pre, [thread |-> call'.thread, mutex |-> call'.mutex])
                /\ call'.op = "condvar_remove_waiter" => post = SelectSeq(pre, Others)
                /\ call'.op = "condvar_signal" =>
                       /\ (ret' = None) <=> (pre = <<>>)
                       /\ pre = <<>> => post = pre
                       /\ pre # <<>> =>
                              /\ ret' = Some(<<pre[1].thread, pre[1].mutex>>)
                              /\ post = Tail(pre)
                /\ call'.op = "condvar_is_awaited" =>
                       /\ ret' = (pre # <<>>)
                       /\ post = pre]_vars

\* A signal returned the older of two waiters with its mutex; the younger one,
\* paired with another mutex, still waits.
C10_Witness ==
    /\ ~aborted
    /\ call.op = "condvar_signal"
    /\ ret # None
    /\ Waiters(sync, call.id) # <<>>
    /\ Waiters(sync, call.id)[1].mutex # ret[1][2]
    /\ Waiters(sync, call.id)[1].thread # ret[1][1]

\* The state after k calls mutex_lock(id, thread) on state s.
RECURSIVE LockRun(_, _, _, _)
LockRun(s, id, thread, k) ==
    IF k = 0 THEN s ELSE mutex_lock(LockRun(s, id, thread, k - 1), id, thread).sync

\* The outcome of the j-th of a run of calls mutex_unlock(id, thread) on state s.
RECURSIVE UnlockRun(_, _, _, _, _)
UnlockRun(s, id, thread, j, sched_ok) ==
    mutex_unlock(IF j = 1 THEN s ELSE UnlockRun(s, id, thread, j - 1, sched_ok).sync,
                 id, thread, sched_ok)

\* C11: recursive mutex.  From every reachable state with the mutex unlocked, k calls
\* mutex_lock(id, T) followed by k calls mutex_unlock(id, T) trip no assertion, the
\* j-th unlock returns k - j + 1 and leaves owner T with lock_count k - j, and the
\* k-th leaves the mutex unlocked with lock_count 0; and, whatever is queued in the
\* meantime, an unlock by the owner at lock_count c > 1 returns c, keeps the owner
\* and the queue and requests no unblock, and one at lock_count 1 with an empty
\* queue leaves the mutex unlocked.
C11_RecursiveLockUnlock ==
    /\ [](~aborted =>
            \A id \in MutexIds, T \in Threads, k \in 1 .. MaxLockCount,
               sched_ok \in BOOLEAN :
                Mx(sync, id).owner = None =>
                    LET locked == LockRun(sync, id, T, k)
                    IN  /\ Mx(locked, id) =
                               [Mx(sync, id) EXCEPT !.owner = Some(T), !.lock_count = k]
                        /\ \A j \in 1 .. k :
                               LET u == UnlockRun(locked, id, T, j, sched_ok)
                               IN  /\ ~u.panic
                                   /\ u.ret = Ok(Some(k - j + 1))
                                   /\ u.sched = <<>>
                                   /\ Mx(u.sync, id).lock_count = k - j
                                   /\ Mx(u.sync, id).owner =
                                          IF j < k THEN Some(T) ELSE None
                                   /\ Mx(u.sync, id).queue = Mx(sync, id).queue)
    /\ [][\A id \in MutexIds :
             LET pre == Mx(sync, id)
                 post == Mx(sync', id)
             IN  (UnlockStep(id) /\ pre.owner = Some(call'.thread)) =>
                   /\ pre.lock_count > 1 =>
                          /\ ret' = Ok(Some(pre.lock_count))
                          /\ post = [pre EXCEPT !.lock_count = pre.lock_count - 1]
                          /\ sched' = <<>>
                   /\ (pre.lock_count = 1 /\ pre.queue = <<>>) =>
                          /\ ret' = Ok(Some(1))
                          /\ post = DefaultMutex
                          /\ sched' = <<>>]_vars

\* The first unlock of a mutex locked twice returned 2: the owner keeps it at
\* lock_count 1 and the queued thread was neither unblocked nor dequeued.
C11_Witness ==
    /\ ~aborted
    /\ call.op = "mutex_unlock"
    /\ ret = Ok(Some(2))
    /\ sched = <<>>
    /\ Mx(sync, call.id).owner = Some(call.thread)
    /\ Mx(sync, call.id).lock_count = 1
    /\ Mx(sync, call.id).queue # <<>>

\* The outcome of the k-th of a run of calls rwlock_reader_lock(id, reader) on s.
RECURSIVE ReaderLockRun(_, _, _, _)
ReaderLockRun(s, id, reader, k) ==
    rwlock_reader_lock(IF k = 1 THEN s ELSE ReaderLockRun(s, id, reader, k - 1).sync,
                       id, reader)

\* The outcome of the k-th of a run of calls rwlock_reader_unlock(id, reader) on s.
RECURSIVE ReaderUnlockRun(_, _, _, _)
ReaderUnlockRun(s, id, reader, k) ==
    rwlock_reader_unlock(IF k = 1 THEN s ELSE ReaderUnlockRun(s, id, reader, k - 1).sync,
                         id, reader)

\* C12: from every reachable state with the rwlock not write-locked, whether or not
\* T already holds read locks, k calls rwlock_reader_lock(id, T) followed by k calls
\* rwlock_reader_unlock(id, T) trip no assertion, each unlock returns true, and the
\* state after the last unlock is the state before the first lock; and
\* rwlock_reader_unlock for a thread with no entry in readers returns false and
\* changes nothing.
C12_ReaderRoundTrip ==
    /\ [](~aborted =>
            \A id \in RwLockIds, T \in Threads, k \in 1 .. MaxReadCount :
                Rw(sync, id).writer = None =>
                    LET locked == ReaderLockRun(sync, id, T, k)
                    IN  /\ \A j \in 1 .. k : ~ReaderLockRun(sync, id, T, j).panic
                        /\ \A j \in 1 .. k :
                               LET u == ReaderUnlockRun(locked.sync, id, T, j)
                               IN  ~u.panic /\ u.ret = TRUE /\ u.sched = <<>>
                        /\ ReaderUnlockRun(locked.sync, id, T, k).sync = sync)
    /\ [][\A id \in RwLockIds :
             (/\ call'.op = "rwlock_reader_unlock"
              /\ call'.id = id
              /\ ~aborted) =>
                 IF call'.thread \in DOMAIN Rw(sync, id).readers
                 THEN ~aborted' => ret' = TRUE
                 ELSE ~aborted' /\ ret' = FALSE /\ sync' = sync /\ sched' = <<>>]_vars

\* A thread holding two read locks gave one back: the unlock returned true and the
\* thread is still a reader, with count 1.
C12_Witness ==
    /\ ~aborted
    /\ call.op = "rwlock_reader_unlock"
    /\ ret = TRUE
    /\ call.thread \in DOMAIN Rw(sync, call.id).readers
    /\ Rw(sync, call.id).readers[call.thread] = 1

\* Free: no writer and no readers; Shared: readers only; Exclusive: a writer only.
RwState(l) ==
    IF l.writer = None
    THEN IF DOMAIN l.readers = {} THEN "Free" ELSE "Shared"
    ELSE IF DOMAIN l.readers = {} THEN "Exclusive" ELSE "SharedAndExclusive"

\* C13: in every step that trips no assertion an rwlock goes from Free to Free,
\* Shared or Exclusive, from Shared to Shared or Free, and from Exclusive to
\* Exclusive or Free: never directly between Shared and Exclusive.
C13_NoDirectSharedExclusive ==
    [][\A id \in RwLockIds :
          (~aborted /\ ~aborted') =>
              <<RwState(Rw(sync, id)), RwState(Rw(sync', id))>> \in
                  { <<"Free", "Free">>, <<"Free", "Shared">>, <<"Free", "Exclusive">>,
                    <<"Shared", "Shared">>, <<"Shared", "Free">>,
                    <<"Exclusive", "Exclusive">>, <<"Exclusive", "Free">> }]_vars

\* The last reader left: the rwlock went from Shared to Free, with a writer waiting
\* in the queue.
C13_Witness ==
    /\ ~aborted
    /\ call.op = "rwlock_reader_unlock"
    /\ ret = TRUE
    /\ RwState(Rw(sync, call.id)) = "Free"
    /\ Rw(sync, call.id).writer_queue # <<>>

\* C14: rwlock_writer_unlock returns the previous writer (none if there was none),
\* leaves writer = none, leaves readers, writer_queue and reader_queue (hence every
\* queued thread) and all other rwlocks as they were, requests no block or unblock,
\* and trips no assertion.
C14_WriterUnlockPicksNoSuccessor ==
    [][\A id \in RwLockIds :
          (call'.op = "rwlock_writer_unlock" /\ call'.id = id /\ ~aborted) =>
              /\ ~aborted'
              /\ ret' = Rw(sync, id).writer
              /\ Rw(sync', id) = [Rw(sync, id) EXCEPT !.writer = None]
              /\ \A other \in RwLockIds \ {id} : Rw(sync', other) = Rw(sync, other)
              /\ sched' = <<>>]_vars

\* A writer unlocked with a writer and a reader queued: both are still queued and
\* the lock has no writer.
C14_Witness ==
    /\ ~aborted
    /\ call.op = "rwlock_writer_unlock"
    /\ ret # None
    /\ Rw(sync, call.id).writer = None
    /\ Rw(sync, call.id).writer_queue # <<>>
    /\ Rw(sync, call.id).reader_queue # <<>>

\* The step is a completed call of operation op on rwlock id.
RwStep(op, id) == call'.op = op /\ call'.id = id /\ ~aborted /\ ~aborted'

\* C15: the two wait queues of an rwlock are independent FIFOs.  An
\* enqueue_and_block call appends its thread at the back of its own queue and
\* requests block_thread for that thread; a dequeue call returns and removes the
\* front of its own queue, or returns none and changes nothing when that queue is
\* empty; and no other operation, the other queue's included, changes a queue.
C15_RwQueuesFifo ==
    [][\A id \in RwLockIds :
          LET pre == Rw(sync, id)
              post == Rw(sync', id)
              Blocked(t) == /\ Len(sched') = 1
                            /\ sched'[1].op = "block"
                            /\ sched'[1].thread = t
          IN  (~aborted /\ ~aborted') =>
              /\ RwStep("rwlock_enqueue_and_block_reader", id) =>
                     /\ post = [pre EXCEPT !.reader_queue = Append(@, call'.thread)]
                     /\ Blocked(call'.thread)
              /\ RwStep("rwlock_enqueue_and_block_writer", id) =>
                     /\ post = [pre EXCEPT !.writer_queue = Append(@, call'.thread)]
                     /\ Blocked(call'.thread)
              /\ RwStep("rwlock_dequeue_reader", id) =>
                     IF pre.reader_queue = <<>>
                     THEN ret' = None /\ sync' = sync
                     ELSE /\ ret' = Some(Head(pre.reader_queue))
                          /\ post = [pre EXCEPT !.reader_queue = Tail(@)]
              /\ RwStep("rwlock_dequeue_writer", id) =>
                     IF pre.writer_queue = <<>>
                     THEN ret' = None /\ sync' = sync
                     ELSE /\ ret' = Some(Head(pre.writer_queue))
                          /\ post = [pre EXCEPT !.writer_queue = Tail(@)]
              /\ ~(\/ RwStep("rwlock_enqueue_and_block_reader", id)
                   \/ RwStep("rwlock_enqueue_and_block_writer", id)
                   \/ RwStep("rwlock_dequeue_reader", id)
                   \/ RwStep("rwlock_dequeue_writer", id)) =>
                     /\ post.reader_queue = pre.reader_queue
                     /\ post.writer_queue = pre.writer_queue]_vars

\* Of two queued writers the one enqueued first was returned; the other is still
\* queued.
C15_Witness ==
    /\ ~aborted
    /\ call.op = "rwlock_dequeue_writer"
    /\ ret # None
    /\ Len(Rw(sync, call.id).writer_queue) = 1
    /\ Rw(sync, call.id).writer_queue[1] # ret[1]

\* The call of the step violates the precondition of its operation.
PreconditionViolated ==
    LET op == call'.op
        id == call'.id
        t == call'.thread
    IN  \/ /\ op = "mutex_lock"
           /\ Mx(sync, id).owner # None
           /\ Mx(sync, id).owner # Some(t)
        \/ op = "mutex_enqueue" /\ Mx(sync, id).owner = None
        \/ op = "mutex_get_owner" /\ Mx(sync, id).owner = None
        \/ op = "rwlock_reader_lock" /\ Rw(sync, id).writer # None
        \/ /\ op = "rwlock_writer_lock"
           /\ (Rw(sync, id).writer # None \/ DOMAIN Rw(sync, id).readers # {})
        \/ op = "rwlock_enqueue_and_block_reader" /\ Rw(sync, id).writer = None
        \/ /\ op = "rwlock_enqueue_and_block_writer"
           /\ Rw(sync, id).writer = None
           /\ DOMAIN Rw(sync, id).readers = {}
        \/ /\ op = "condvar_wait"
           /\ \E i \in 1 .. Len(Waiters(sync, id)) : Waiters(sync, id)[i].thread = t

\* C16: a call that violates its precondition (mutex_lock of a mutex locked by
\* another thread, mutex_enqueue or mutex_get_owner on an unlocked mutex,
\* rwlock_reader_lock under a writer, rwlock_writer_lock on a locked rwlock,
\* rwlock_enqueue_and_block_reader without a writer, rwlock_enqueue_and_block_writer
\* on an unlocked rwlock, condvar_wait of a waiting thread) aborts with the state as
\* it was before the call and no block or unblock requested; and no operation runs
\* after an abort.
C16_ViolationAbortsUnchanged ==
    [][/\ ~aborted
       /\ PreconditionViolated => (aborted' /\ sync' = sync /\ sched' = <<>>)]_vars

\* A thread tried to lock a mutex that another thread holds, with a third thread
\* queued: the execution is aborted.
C16_Witness ==
    /\ aborted
    /\ call.op = "mutex_lock"
    /\ Mx(sync, call.id).owner # None
    /\ Mx(sync, call.id).owner # Some(call.thread)
    /\ Mx(sync, call.id).lock_count = 1
    /\ Mx(sync, call.id).queue # <<>>

\* The arena of the kind that operation op creates in.
Arena(s, op) ==
    CASE op = "mutex_create" -> s.mutexes
      [] op = "rwlock_create" -> s.rwlocks
      [] op = "condvar_create" -> s.condvars

\* C17: in any interleaving of the three create operations, the create that finds n
\* primitives of its kind returns the id n + 1 and adds one primitive to the arena
\* of its kind and none to the others, so ids are >= 1, distinct within a kind, and
\* not consumed by the other kinds; index(new(n)) = n for every arena position n;
\* and from_u32 fails on 0 and only on 0.
C17_DenseNonZeroIds ==
    /\ [](\A n \in 0 .. MaxCreates :
            /\ Id_new(n) >= 1
            /\ Id_index(Id_new(n)) = n
            /\ \A m \in 0 .. MaxCreates : m # n => Id_new(m) # Id_new(n))
    /\ [][/\ call'.op \in {"mutex_create", "rwlock_create", "condvar_create"} =>
               /\ ~aborted'
               /\ ret' = Len(Arena(sync, call'.op)) + 1
               /\ Arena(sync', call'.op) =
                      Append(Arena(sync, call'.op), Arena(sync', call'.op)[ret'])
               /\ \A op \in {"mutex_create", "rwlock_create", "condvar_create"} :
                      op # call'.op => Arena(sync', op) = Arena(sync, op)
          /\ call'.op = "from_u32" =>
               /\ aborted' <=> call'.id = 0
               /\ ~aborted' => ret' = call'.id
               /\ sync' = sync]_vars

\* The second condvar was created after three mutexes and an rwlock: it got id 2.
C17_Witness ==
    /\ ~aborted
    /\ call.op = "condvar_create"
    /\ ret = 2
    /\ Len(sync.mutexes) = 3
    /\ Len(sync.rwlocks) = 1
    /\ Len(sync.condvars) = 2

\* C18: after every operation of a sequence that trips no assertion, a mutex without
\* owner has an empty queue, so that a mutex_lock of an unlocked mutex passes no
\* waiting thread.  (It holds whether or not unblock_thread succeeds.)
C18_UnlockedQueueEmpty ==
    ~aborted => \A id \in MutexIds : Mx(sync, id).owner = None => Mx(sync, id).queue = <<>>

\* The owner gave the mutex up for good: the unlock found nobody to hand it to and
\* left it unlocked.
C18_Witness ==
    /\ ~aborted
    /\ call.op = "mutex_unlock"
    /\ ret = Ok(Some(1))
    /\ Mx(sync, call.id).owner = None
    /\ Mx(sync, call.id).queue = <<>>

\* Thread t has just been handed mutex id: it is the owner at lock_count 1 and the
\* unlock that made it so requested unblock_thread(t).
HandedTo(id, t) ==
    /\ call.op = "mutex_unlock"
    /\ call.id = id
    /\ sched = <<SchedCall("unblock", t, TRUE)>>
    /\ Mx(sync, id).owner = Some(t)
    /\ Mx(sync, id).lock_count = 1

\* C19: when every owner keeps unlocking down to lock count 0, unblock_thread
\* succeeds and mutex_dequeue is called only from inside mutex_unlock, a thread in
\* the queue of a mutex is eventually handed the mutex (owner with lock_count 1,
\* unblock requested), unless an assertion ends the execution first.
C19_QueuedEventuallyOwns ==
    \A id \in 1 .. MaxMutexes, t \in Threads :
        (~aborted /\ id \in MutexIds /\ InSeq(Mx(sync, id).queue, t))
            ~> (aborted \/ HandedTo(id, t))

\* Thread 3 was handed the mutex while thread 2, enqueued behind it, still waits.
C19_Witness ==
    /\ ~aborted
    /\ HandedTo(Id_new(0), 3)
    /\ Mx(sync, Id_new(0)).queue = <<2>>

\* The scheduler call of the last step failed.
SchedulerFailed == Len(sched') = 1 /\ ~sched'[1].ok

\* C20: a scheduler error is returned to the caller and the state change already
\* made stays.  When block_thread fails inside rwlock_enqueue_and_block_reader or
\* rwlock_enqueue_and_block_writer, the call returns the error and the thread is
\* at the back of its queue; when unblock_thread fails inside mutex_unlock during
\* a handoff, the call returns the error, not the previous lock count, and the
\* successor is the owner with lock_count 1 and no longer in the queue.  No other
\* operation calls the scheduler.
C20_SchedulerErrorNoRollback ==
    [][(~aborted /\ ~aborted' /\ SchedulerFailed) =>
          /\ ret' = Err
          /\ call'.op \in {"rwlock_enqueue_and_block_reader",
                           "rwlock_enqueue_and_block_writer", "mutex_unlock"}
          /\ call'.op = "rwlock_enqueue_and_block_reader" =>
                 /\ sched'[1] = SchedCall("block", call'.thread, FALSE)
                 /\ Rw(sync', call'.id) =
                        [Rw(sync, call'.id) EXCEPT
                             !.reader_queue = Append(@, call'.thread)]
          /\ call'.op = "rwlock_enqueue_and_block_writer" =>
                 /\ sched'[1] = SchedCall("block", call'.thread, FALSE)
                 /\ Rw(sync', call'.id) =
                        [Rw(sync, call'.id) EXCEPT
                             !.writer_queue = Append(@, call'.thread)]
          /\ call'.op = "mutex_unlock" =>
                 LET pre == Mx(sync, call'.id)
                 IN  /\ pre.owner = Some(call'.thread)
                     /\ pre.lock_count = 1
                     /\ pre.queue # <<>>
                     /\ sched'[1] = SchedCall("unblock", Head(pre.queue), FALSE)
                     /\ ret' # Ok(Some(pre.lock_count))
                     /\ Mx(sync', call'.id) = [owner |-> Some(Head(pre.queue)),
                                               lock_count |-> 1,
                                               queue |-> Tail(pre.queue)]]_vars

\* block_thread failed for a writer that queued behind another: the call returned
\* the error and the writer is the last of the two in the queue.
C20_Witness ==
    /\ ~aborted
    /\ call.op = "rwlock_enqueue_and_block_writer"
    /\ ret = Err
    /\ sched = <<SchedCall("block", call.thread, FALSE)>>
    /\ Len(Rw(sync, call.id).writer_queue) = 2
    /\ Rw(sync, call.id).writer_queue[2] = call.thread

\* An unlock's handoff whose unblock_thread failed: the error was returned and the
\* successor holds the mutex, while a thread behind it still waits.
C20_HandoffFailed ==
    /\ ~aborted
    /\ call.op = "mutex_unlock"
    /\ ret = Err
    /\ sched = <<SchedCall("unblock", Mx(sync, call.id).owner[1], FALSE)>>
    /\ Mx(sync, call.id).lock_count = 1
    /\ Len(Mx(sync, call.id).queue) = 1

=============================================================================
